---- MODULE Spec2Model ----
(***************************************************************************)
(* A model of beccs_calculator_app.py: the calculation core                *)
(* calculate_beccs_carbon_credits and the Streamlit script main() that     *)
(* validates the widget values, calls the core and renders the record.     *)
(*                                                                         *)
(* Numbers.  The program computes in binary doubles.  The model computes   *)
(* the same chain of operations in exact rational arithmetic (a number is  *)
(* a record [n, d] in lowest terms, d > 0).  On the inputs of the model    *)
(* the double differs from the exact value by a relative error of about    *)
(* 1e-16, which round(x, 2) can only see when the exact value lies         *)
(* half-way between two hundredths: there the double is a little above or  *)
(* a little below the tie, and round() returns either neighbour.  The      *)
(* model leaves that direction open (the variable fpu), and fixes it per   *)
(* numeric input, as the hardware does.                                    *)
(***************************************************************************)
EXTENDS Integers, Sequences, FiniteSets, TLC

\* The model's bound: quantities 0.00 .. MaxQty/100 tons are enumerated.
MaxQty == 2
\* The model's bound: biomass_type labels of up to MaxTypeLen characters.
MaxTypeLen == 2

\* The widgets' default values (the spec's concrete scenario).
DefaultQuantity == 50
DefaultCalorific == 18
DefaultMoisture == 10
DefaultCapture == 85

VARIABLES
    \* ---- direct calls of the core ----
    args,        \* the parameters of the current call, as the callee holds them
    passed,      \* the values the caller passed, as the caller holds them
    cpc,         \* "ready": about to be called; "returned"; "raised"
    ret,         \* the record the current call returned (NoResult before)
    fpu,         \* where the doubles of this call fall at a rounding tie
    prevArgs,    \* the arguments of the call before (NoCall: none)
    prevRet,     \* what that call returned
    \* ---- one run of main() after another ----
    pc,          \* the position of the script
    inputs,      \* the widget values read at lines 70-80
    error,       \* the local `error` of main (None or the message)
    results,     \* the local `results` of main (NoResult or the record)
    rendered,    \* the elements this run has put on the page
    coreCalls,   \* calls of the core made by this run
    failed,      \* an exception was raised in this run
    prevFailed   \* the run before ended in a handled exception

coreVars == <<args, passed, cpc, ret, fpu, prevArgs, prevRet>>
mainVars == <<pc, inputs, error, results, rendered, coreCalls, failed, prevFailed>>
vars == <<args, passed, cpc, ret, fpu, prevArgs, prevRet,
          pc, inputs, error, results, rendered, coreCalls, failed, prevFailed>>

-----------------------------------------------------------------------------
(* Exact rationals standing for the program's floats.                      *)

Abs(x) == IF x < 0 THEN -x ELSE x

RECURSIVE GCD(_, _)
GCD(a, b) == IF b = 0 THEN a ELSE GCD(b, a % b)

\* n/d in lowest terms, d > 0 required.
Rat(n, d) ==
    LET g == GCD(Abs(n), d)
    IN  [n |-> n \div g, d |-> d \div g]

\* What a float division by zero gives in Python: ZeroDivisionError.
ZeroDivision == [n |-> 0, d |-> 0]
Raised(x) == x.d = 0

RMul(a, b) ==
    LET g1 == GCD(Abs(a.n), b.d)
        g2 == GCD(Abs(b.n), a.d)
    IN  Rat((a.n \div g1) * (b.n \div g2), (a.d \div g2) * (b.d \div g1))

RSub(a, b) == Rat(a.n * b.d - b.n * a.d, a.d * b.d)

RDiv(a, b) ==
    IF b.n = 0 THEN ZeroDivision
    ELSE IF b.n > 0 THEN RMul(a, [n |-> b.d, d |-> b.n])
    ELSE RMul(a, [n |-> -b.d, d |-> -b.n])

RPositive(a) == a.n > 0

\* x is exactly half-way between two multiples of 0.01.
IsTie(x) == (2 * ((x.n * 100) % x.d)) = x.d

\* A rounding that truncates toward minus infinity instead.
roundTruncating(x, up) ==
    Rat((x.n * 100) \div x.d, 100)

\* round(x, 2): the nearest multiple of 0.01; at a tie the neighbour the
\* double of x is nearer to, which `up` tells.
round(x, up) ==
    LET lo == (x.n * 100) \div x.d
        r  == (x.n * 100) % x.d
    IN  IF 2 * r < x.d THEN Rat(lo, 100)
        ELSE IF 2 * r > x.d THEN Rat(lo + 1, 100)
        ELSE IF up THEN Rat(lo + 1, 100) ELSE Rat(lo, 100)

-----------------------------------------------------------------------------
(* calculate_beccs_carbon_credits, lines 6-45.                             *)

One == Rat(1, 1)
Zero == Rat(0, 1)

CO2 == "CO2 Captured (tons)"
CREDITS == "Carbon Credits (credits)"
ENERGY == "Energy Output (MWh)"
EFFICIENCY == "Energy Efficiency (MWh/ton)"
ResultKeys == {CO2, CREDITS, ENERGY, EFFICIENCY}

\* One decision per double that is rounded: co2_captured (carbon_credits is
\* the same double), energy_output_mwh and energy_efficiency.
FPU == [{CO2, ENERGY, EFFICIENCY} -> BOOLEAN]

\* A derating with the sign of (1 - moisture_content) slipped.
effective_calorific_value_slipped(calorific_value, moisture_content) ==
    RMul(calorific_value, RSub(moisture_content, One))

effective_calorific_value(calorific_value, moisture_content) ==
    RMul(calorific_value, RSub(One, moisture_content))

conversion_efficiency == Rat(3, 10)

energy_output_mwh(biomass_quantity_tons, calorific_value, moisture_content) ==
    RDiv(RMul(RMul(RMul(biomass_quantity_tons,
                        effective_calorific_value(calorific_value, moisture_content)),
                   Rat(1000, 1)),
              conversion_efficiency),
         Rat(3600, 1))

total_co2_emitted(biomass_quantity_tons, emission_factor) ==
    RMul(biomass_quantity_tons, emission_factor)

\* A capture that keeps the share that escapes instead.
co2_released(biomass_quantity_tons, emission_factor, capture_efficiency) ==
    RMul(total_co2_emitted(biomass_quantity_tons, emission_factor),
         RSub(One, capture_efficiency))

co2_captured(biomass_quantity_tons, emission_factor, capture_efficiency) ==
    RMul(total_co2_emitted(biomass_quantity_tons, emission_factor), capture_efficiency)

\* Credits for all the CO2 emitted, captured or not.
carbon_credits_emitted(biomass_quantity_tons, emission_factor, capture_efficiency) ==
    total_co2_emitted(biomass_quantity_tons, emission_factor)

carbon_credits(biomass_quantity_tons, emission_factor, capture_efficiency) ==
    co2_captured(biomass_quantity_tons, emission_factor, capture_efficiency)

\* The division without its guard.
energy_efficiency_unguarded(biomass_quantity_tons, calorific_value, moisture_content) ==
    RDiv(energy_output_mwh(biomass_quantity_tons, calorific_value, moisture_content),
         biomass_quantity_tons)

\* The guard without its division.
energy_efficiency_undivided(biomass_quantity_tons, calorific_value, moisture_content) ==
    IF RPositive(biomass_quantity_tons)
    THEN energy_output_mwh(biomass_quantity_tons, calorific_value, moisture_content)
    ELSE Zero

energy_efficiency(biomass_quantity_tons, calorific_value, moisture_content) ==
    IF RPositive(biomass_quantity_tons)
    THEN RDiv(energy_output_mwh(biomass_quantity_tons, calorific_value, moisture_content),
              biomass_quantity_tons)
    ELSE Zero

\* What a call that raises leaves in place of a record.
Exception == [e \in {"exception"} |-> "ZeroDivisionError"]
NoResult == [e \in {"none"} |-> "None"]
None == "None"

\* Lines 38-45: the record of the four rounded values, or the exception the
\* body raised before it got there.
Results(biomass_quantity_tons, capture_efficiency, calorific_value, moisture_content, emission_factor, fp) ==
    LET co2 == co2_captured(biomass_quantity_tons, emission_factor, capture_efficiency)
        cc  == carbon_credits(biomass_quantity_tons, emission_factor, capture_efficiency)
        eo  == energy_output_mwh(biomass_quantity_tons, calorific_value, moisture_content)
        ee  == energy_efficiency(biomass_quantity_tons, calorific_value, moisture_content)
    IN  IF Raised(ee) THEN Exception
        ELSE [k \in ResultKeys |->
                CASE k = CO2        -> round(co2, fp[CO2])
                  [] k = CREDITS    -> round(cc, fp[CO2])
                  [] k = ENERGY     -> round(eo, fp[ENERGY])
                  [] k = EFFICIENCY -> round(ee, fp[EFFICIENCY])]

DefaultType == <<"h", "a", "r", "d", "w", "o", "o", "d">>
DefaultEmission == Rat(176, 100)

\* A core that looks the emission factor up by biomass type and takes the
\* argument for the default type only.
calculate_by_type(biomass_type, biomass_quantity_tons, capture_efficiency, calorific_value, moisture_content, emission_factor, fp) ==
    Results(biomass_quantity_tons, capture_efficiency, calorific_value, moisture_content,
            IF biomass_type = DefaultType THEN emission_factor ELSE DefaultEmission, fp)

calculate_beccs_carbon_credits(biomass_type, biomass_quantity_tons, capture_efficiency, calorific_value, moisture_content, emission_factor, fp) ==
    Results(biomass_quantity_tons, capture_efficiency, calorific_value, moisture_content,
            emission_factor, fp)

\* The doubles of an input that are at a rounding tie may round either way;
\* the others round one way only, and their decision is left FALSE.
TieChoices(x) == IF ~Raised(x) /\ IsTie(x) THEN BOOLEAN ELSE {FALSE}

FpChoices(q, ce, cv, mc, ef) ==
    LET c1 == TieChoices(co2_captured(q, ef, ce))
        c2 == TieChoices(energy_output_mwh(q, cv, mc))
        c3 == TieChoices(energy_efficiency(q, cv, mc))
    IN  {[k \in {CO2, ENERGY, EFFICIENCY} |->
            IF k = CO2 THEN b1 ELSE IF k = ENERGY THEN b2 ELSE b3] :
         b1 \in c1, b2 \in c2, b3 \in c3}

-----------------------------------------------------------------------------
(* Direct calls of the core: any caller, any arguments.                    *)

\* Quantities -0.01 .. MaxQty/100 and 50 tons; the core validates nothing.
CoreQuantities == {Rat(k, 100) : k \in -1..MaxQty} \cup {Rat(DefaultQuantity, 1)}
Calorifics == {Rat(6, 100), Rat(DefaultCalorific, 1)}
Emissions == {Rat(50, 100), DefaultEmission}
Captures == {Rat(0, 100), Rat(DefaultCapture, 100), Rat(100, 100)}
Moistures == {Rat(0, 100), Rat(DefaultMoisture, 100)}
CoreTypes == {DefaultType, <<"a", "l", "g", "a", "e">>}

CoreInputs ==
    [biomass_type : CoreTypes,
     biomass_quantity_tons : CoreQuantities,
     capture_efficiency : Captures,
     calorific_value : Calorifics,
     moisture_content : Moistures,
     emission_factor : Emissions]

NoCall == [biomass_type |-> << >>]
NoFp == [k \in {CO2, ENERGY, EFFICIENCY} |-> FALSE]

\* The numbers the doubles of a call are computed from.
Numeric(a) ==
    <<a.biomass_quantity_tons, a.capture_efficiency, a.calorific_value,
      a.moisture_content, a.emission_factor>>

Call(a, fp) ==
    calculate_beccs_carbon_credits(a.biomass_type, a.biomass_quantity_tons,
        a.capture_efficiency, a.calorific_value, a.moisture_content,
        a.emission_factor, fp)

\* The script is not running.
MainIdle ==
    /\ pc = "done"
    /\ inputs = NoCall
    /\ error = None
    /\ results = NoResult
    /\ rendered = {}
    /\ coreCalls = 0
    /\ failed = FALSE
    /\ prevFailed = FALSE

CoreInit ==
    /\ args \in CoreInputs
    /\ passed = args
    /\ cpc = "ready"
    /\ ret = NoResult
    /\ fpu = NoFp
    /\ prevArgs = NoCall
    /\ prevRet = NoResult
    /\ MainIdle

\* A core that keeps the record of the call before and hands it out again.
ApplyRetaining ==
    /\ cpc = "ready"
    /\ fpu' \in FpChoices(args.biomass_quantity_tons, args.capture_efficiency,
                          args.calorific_value, args.moisture_content,
                          args.emission_factor)
    /\ ret' = IF prevArgs = NoCall THEN Call(args, fpu') ELSE prevRet
    /\ cpc' = IF ret' = Exception THEN "raised" ELSE "returned"
    /\ UNCHANGED <<args, passed, prevArgs, prevRet>>
    /\ UNCHANGED mainVars

\* The call: the body of the function runs on args and returns or raises.
\* The same numbers give the same doubles, so a call on the numbers of the
\* call before rounds its ties the same way.
Apply ==
    /\ cpc = "ready"
    /\ IF prevArgs # NoCall /\ Numeric(prevArgs) = Numeric(args)
       THEN fpu' = fpu
       ELSE fpu' \in FpChoices(args.biomass_quantity_tons, args.capture_efficiency,
                               args.calorific_value, args.moisture_content,
                               args.emission_factor)
    /\ ret' = Call(args, fpu')
    /\ cpc' = IF ret' = Exception THEN "raised" ELSE "returned"
    /\ UNCHANGED <<args, passed, prevArgs, prevRet>>
    /\ UNCHANGED mainVars

\* The caller lets go of what it kept of the call before the last one:
\* the core itself keeps nothing of any call.
Discard ==
    /\ cpc \in {"returned", "raised"}
    /\ prevArgs # NoCall
    /\ prevArgs' = NoCall
    /\ prevRet' = NoResult
    /\ UNCHANGED <<args, passed, cpc, ret, fpu>>
    /\ UNCHANGED mainVars

\* The caller keeps the last call and makes its next one, with any
\* arguments.
NextCall(a) ==
    /\ cpc \in {"returned", "raised"}
    /\ prevArgs = NoCall
    /\ prevArgs' = args
    /\ prevRet' = ret
    /\ args' = a
    /\ passed' = a
    /\ ret' = NoResult
    /\ cpc' = "ready"
    /\ UNCHANGED fpu
    /\ UNCHANGED mainVars

CoreNext ==
    \/ Apply
    \/ Discard
    \/ \E a \in CoreInputs : NextCall(a)

CoreSpec == CoreInit /\ [][CoreNext]_vars

-----------------------------------------------------------------------------
(* The claims about the core, checked under CoreSpec.                      *)

Returned == cpc = "returned"
Q == args.biomass_quantity_tons
CE == args.capture_efficiency
CV == args.calorific_value
MC == args.moisture_content
EF == args.emission_factor

IsBlank(s) == \A i \in 1..Len(s) : s[i] = " "
InUnitInterval(x) == x.n >= 0 /\ x.n <= x.d

\* The preconditions of section 4.1 of the specification.
ValidInput(a) ==
    /\ ~IsBlank(a.biomass_type)
    /\ a.biomass_quantity_tons.n > 0
    /\ a.calorific_value.n > 0
    /\ a.emission_factor.n > 0
    /\ InUnitInterval(a.capture_efficiency)
    /\ InUnitInterval(a.moisture_content)

\* r is a multiple of 0.01 and no further than 0.005 from n/d (d > 0).
Nearest(r, n, d) ==
    /\ 100 % r.d = 0
    /\ 200 * Abs(r.n * d - n * r.d) <= r.d * d

\* |a - b| <= n/d
Within(a, b, n, d) ==
    LET diff  == RSub(a, b)
        bound == Rat(n, d)
    IN  Abs(diff.n) * bound.d <= bound.n * diff.d

Scenario ==
    [biomass_type |-> DefaultType,
     biomass_quantity_tons |-> Rat(50, 1),
     capture_efficiency |-> Rat(85, 100),
     calorific_value |-> Rat(18, 1),
     moisture_content |-> Rat(10, 100),
     emission_factor |-> Rat(176, 100)]

ScenarioResult ==
    [k \in ResultKeys |->
        CASE k = CO2        -> Rat(748, 10)
          [] k = CREDITS    -> Rat(748, 10)
          [] k = ENERGY     -> Rat(675, 10)
          [] k = EFFICIENCY -> Rat(135, 100)]

\* C1: every call returns a record whose fields are the formula chain
\* rounded to 2 decimals: CO2 Captured is a hundredth nearest to
\* quantity * emission_factor * capture_efficiency, Carbon Credits is the
\* same value, Energy Output is a hundredth nearest to
\* quantity * calorific_value * (1 - moisture_content) * 1000 * 0.3 / 3600
\* (that is, / 12), Energy Efficiency is a hundredth nearest to
\* calorific_value * (1 - moisture_content) / 12 when quantity > 0 and is 0
\* otherwise; the scenario (hardwood, 50, 0.85, 18.0, 0.10, 1.76) returns
\* 74.8, 74.8, 67.5 and 1.35.
C1_FormulaChain ==
    /\ cpc # "raised"
    /\ Returned =>
        /\ DOMAIN ret = ResultKeys
        /\ Nearest(ret[CO2], Q.n * EF.n * CE.n, Q.d * EF.d * CE.d)
        /\ ret[CREDITS] = ret[CO2]
        /\ Nearest(ret[ENERGY], Q.n * CV.n * (MC.d - MC.n), Q.d * CV.d * MC.d * 12)
        /\ IF Q.n > 0
           THEN Nearest(ret[EFFICIENCY], CV.n * (MC.d - MC.n), CV.d * MC.d * 12)
           ELSE ret[EFFICIENCY] = Zero
        /\ args = Scenario => ret = ScenarioResult

C1_Witness == Returned /\ args = Scenario /\ ret = ScenarioResult

\* C2: for every valid input all four fields of the returned record are
\* >= 0.
C2_NonNegative ==
    (Returned /\ ValidInput(args)) => \A k \in ResultKeys : ret[k].n >= 0

C2_Witness ==
    /\ Returned
    /\ ValidInput(args)
    /\ \A k \in ResultKeys : ret[k].n > 0

\* C3: the returned Carbon Credits equal the returned CO2 Captured exactly.
C3_CreditsEqualCaptured == Returned => ret[CREDITS] = ret[CO2]

\* A call whose captured CO2 lies at a rounding tie and is rounded up.
C3_Witness ==
    /\ Returned
    /\ IsTie(co2_captured(Q, EF, CE))
    /\ fpu[CO2]
    /\ ret[CO2].n > 0
    /\ ret[CREDITS] = ret[CO2]

\* Two calls in a row on valid inputs that differ in the quantity alone.
ScaledPair ==
    /\ Returned
    /\ prevArgs # NoCall
    /\ DOMAIN prevRet = ResultKeys
    /\ ValidInput(args)
    /\ ValidInput(prevArgs)
    /\ args.biomass_quantity_tons # prevArgs.biomass_quantity_tons
    /\ [args EXCEPT !.biomass_quantity_tons = prevArgs.biomass_quantity_tons] = prevArgs

PQ == prevArgs.biomass_quantity_tons

C5_CaptureBoundaries ==
    (Returned /\ ValidInput(args)) =>
        /\ CE = Zero => (ret[CO2] = Zero /\ ret[CREDITS] = Zero)
        /\ CE = One => Nearest(ret[CO2], Q.n * EF.n, Q.d * EF.d)

\* A call with capture_efficiency = 0 followed by one with = 1.
C5_Witness ==
    /\ Returned
    /\ ValidInput(args)
    /\ prevArgs # NoCall
    /\ ValidInput(prevArgs)
    /\ prevArgs.capture_efficiency = Zero
    /\ prevRet[CO2] = Zero
    /\ CE = One
    /\ ret[CO2].n > 0

C10_TypeIgnored ==
    (/\ Returned
     /\ prevArgs # NoCall
     /\ Numeric(prevArgs) = Numeric(args)) => ret = prevRet

C10_Witness ==
    /\ Returned
    /\ prevArgs # NoCall
    /\ Numeric(prevArgs) = Numeric(args)
    /\ prevArgs.biomass_type # args.biomass_type
    /\ ret = prevRet
    /\ ret[CO2].n > 0

-----------------------------------------------------------------------------
(* main(), lines 61-124: one run of the script per change of a widget.     *)

\* str.strip(): leading and trailing whitespace removed.
RECURSIVE lstrip(_)
lstrip(s) == IF s # << >> /\ Head(s) = " " THEN lstrip(Tail(s)) ELSE s

RECURSIVE rstrip(_)
rstrip(s) ==
    IF s # << >> /\ s[Len(s)] = " " THEN rstrip(SubSeq(s, 1, Len(s) - 1)) ELSE s

strip(s) == rstrip(lstrip(s))

\* What the text input can hold: the default and every short label of
\* blanks and letters.
RECURSIVE Labels(_)
Labels(n) ==
    IF n = 0 THEN {<< >>}
    ELSE Labels(n - 1) \cup {Append(l, c) : l \in Labels(n - 1), c \in {" ", "h"}}

TypeWidget == Labels(MaxTypeLen) \cup {DefaultType}
\* number_input(min_value=0.0): no negative value leaves the widget.
QuantityWidget == {Zero, Rat(1, 100), Rat(DefaultQuantity, 1)}
CalorificWidget == {Zero, Rat(DefaultCalorific, 1)}
EmissionWidget == {Zero, DefaultEmission}
\* slider(min_value=0, max_value=100): whole percents.
MoistureSlider == {0, DefaultMoisture}
CaptureSlider == {DefaultCapture, 100}

Widgets ==
    [biomass_type : TypeWidget,
     biomass_quantity : QuantityWidget,
     calorific_value : CalorificWidget,
     moisture : MoistureSlider,
     emission_factor : EmissionWidget,
     capture : CaptureSlider]

\* Lines 70-80: the locals of main, the sliders divided by 100.0.
ReadWidgets(w) ==
    [biomass_type |-> w.biomass_type,
     biomass_quantity_tons |-> w.biomass_quantity,
     capture_efficiency |-> Rat(w.capture, 100),
     calorific_value |-> w.calorific_value,
     moisture_content |-> Rat(w.moisture, 100),
     emission_factor |-> w.emission_factor]

DefaultWidgets ==
    [biomass_type |-> DefaultType,
     biomass_quantity |-> Rat(DefaultQuantity, 1),
     calorific_value |-> Rat(DefaultCalorific, 1),
     moisture |-> DefaultMoisture,
     emission_factor |-> DefaultEmission,
     capture |-> DefaultCapture]

\* A validation that forgets to trim the label.
ValidateUntrimmed(i) ==
    IF i.biomass_type = << >> THEN "Biomass type cannot be empty."
    ELSE IF ~RPositive(i.biomass_quantity_tons) THEN "Biomass quantity must be positive."
    ELSE IF ~RPositive(i.calorific_value) THEN "Calorific value must be positive."
    ELSE IF ~RPositive(i.emission_factor) THEN "Emission factor must be positive."
    ELSE None

\* Lines 83-91: the value of `error`.
Validate(i) ==
    IF strip(i.biomass_type) = << >> THEN "Biomass type cannot be empty."
    ELSE IF ~RPositive(i.biomass_quantity_tons) THEN "Biomass quantity must be positive."
    ELSE IF ~RPositive(i.calorific_value) THEN "Calorific value must be positive."
    ELSE IF ~RPositive(i.emission_factor) THEN "Emission factor must be positive."
    ELSE None

\* A try block that covers the call of the core alone.
InTryCoreOnly(p) == p = "compute"

\* Lines 97-122: the steps inside the try block.
InTry(p) == p \in {"compute", "table", "chart", "download"}

\* The first run of the script, on the widgets' defaults.
MainInit ==
    /\ pc = "validate"
    /\ inputs = ReadWidgets(DefaultWidgets)
    /\ error = None
    /\ results = NoResult
    /\ rendered = {}
    /\ coreCalls = 0
    /\ failed = FALSE
    /\ prevFailed = FALSE

\* No caller but main.
CoreIdle ==
    /\ args = NoCall
    /\ passed = NoCall
    /\ cpc = "idle"
    /\ ret = NoResult
    /\ fpu = NoFp
    /\ prevArgs = NoCall
    /\ prevRet = NoResult

Init == MainInit /\ CoreIdle

\* The user changes widgets and Streamlit runs the script again from the
\* top: lines 62-80.
Rerun(w) ==
    /\ pc = "done"
    /\ pc' = "validate"
    /\ inputs' = ReadWidgets(w)
    /\ error' = None
    /\ results' = NoResult
    /\ rendered' = {}
    /\ coreCalls' = 0
    /\ failed' = FALSE
    /\ prevFailed' = failed
    /\ UNCHANGED coreVars

\* Lines 83-93: validation, and the branch on `error`.
Validation ==
    /\ pc = "validate"
    /\ error' = Validate(inputs)
    /\ pc' = IF error' # None THEN "report" ELSE "compute"
    /\ UNCHANGED <<inputs, results, rendered, coreCalls, failed, prevFailed>>
    /\ UNCHANGED coreVars

\* Line 94: st.error(error).
ReportError ==
    /\ pc = "report"
    /\ rendered' = rendered \cup {"error"}
    /\ pc' = "done"
    /\ UNCHANGED <<inputs, error, results, coreCalls, failed, prevFailed>>
    /\ UNCHANGED coreVars

\* Lines 98-101: the call of the core.  A call that raises leaves the try
\* block as any other exception does.
Compute ==
    /\ pc = "compute"
    /\ coreCalls' = coreCalls + 1
    /\ \E fp \in FpChoices(inputs.biomass_quantity_tons, inputs.capture_efficiency,
                           inputs.calorific_value, inputs.moisture_content,
                           inputs.emission_factor) :
          LET r == Call(inputs, fp)
          IN  IF r = Exception
              THEN /\ failed' = TRUE
                   /\ pc' = IF InTry(pc) THEN "except" ELSE "aborted"
                   /\ UNCHANGED results
              ELSE /\ results' = r
                   /\ pc' = "table"
                   /\ UNCHANGED failed
    /\ UNCHANGED <<inputs, error, rendered, prevFailed>>
    /\ UNCHANGED coreVars

\* Lines 104-105: the one-row table.
ShowTable ==
    /\ pc = "table"
    /\ rendered' = rendered \cup {"table"}
    /\ pc' = "chart"
    /\ UNCHANGED <<inputs, error, results, coreCalls, failed, prevFailed>>
    /\ UNCHANGED coreVars

\* Lines 108-110: visualize_results and st.pyplot.
ShowChart ==
    /\ pc = "chart"
    /\ rendered' = rendered \cup {"chart"}
    /\ pc' = "download"
    /\ UNCHANGED <<inputs, error, results, coreCalls, failed, prevFailed>>
    /\ UNCHANGED coreVars

\* Lines 113-121: the CSV and its download button.
OfferDownload ==
    /\ pc = "download"
    /\ rendered' = rendered \cup {"download"}
    /\ pc' = "done"
    /\ UNCHANGED <<inputs, error, results, coreCalls, failed, prevFailed>>
    /\ UNCHANGED coreVars

\* The step the script is at raises (pandas, matplotlib, Streamlit, memory):
\* inside the try block control goes to the handler, outside it the
\* exception leaves main.
Fail ==
    /\ pc \in {"compute", "table", "chart", "download"}
    /\ failed' = TRUE
    /\ coreCalls' = IF pc = "compute" THEN coreCalls + 1 ELSE coreCalls
    /\ pc' = IF InTry(pc) THEN "except" ELSE "aborted"
    /\ UNCHANGED <<inputs, error, results, rendered, prevFailed>>
    /\ UNCHANGED coreVars

\* Lines 123-124: except Exception as e: st.error(...).
HandleException ==
    /\ pc = "except"
    /\ rendered' = rendered \cup {"error"}
    /\ pc' = "done"
    /\ UNCHANGED <<inputs, error, results, coreCalls, failed, prevFailed>>
    /\ UNCHANGED coreVars

Next ==
    \/ \E w \in Widgets : Rerun(w)
    \/ Validation
    \/ ReportError
    \/ Compute
    \/ ShowTable
    \/ ShowChart
    \/ OfferDownload
    \/ Fail
    \/ HandleException

Spec == Init /\ [][Next]_vars

-----------------------------------------------------------------------------
(* The claims about main(), checked under Spec.                            *)

\* What the specification asks of the widget values before the core runs.
ValidWidgets(i) ==
    /\ ~IsBlank(i.biomass_type)
    /\ i.biomass_quantity_tons.n > 0
    /\ i.calorific_value.n > 0
    /\ i.emission_factor.n > 0

Outputs == {"table", "chart", "download"}

\* C6: in every run the core is called only once validation has passed, and
\* a finished run has called it if and only if biomass_type is non-blank
\* after trimming and quantity, calorific value and emission factor are all
\* > 0; a run on other values reports an error and produces no result, no
\* chart and no download.
C6_ValidationFirst ==
    /\ coreCalls <= 1
    /\ coreCalls > 0 =>
          /\ pc \notin {"validate", "report"}
          /\ error = None
          /\ ValidWidgets(inputs)
    /\ pc = "done" =>
          /\ (coreCalls = 1) <=> ValidWidgets(inputs)
          /\ ~ValidWidgets(inputs) =>
                /\ error # None
                /\ rendered = {"error"}
                /\ results = NoResult

\* A finished run on a label of blanks: the error, and nothing else.
C6_Witness ==
    /\ pc = "done"
    /\ inputs.biomass_type = <<" ", " ">>
    /\ inputs.biomass_quantity_tons.n > 0
    /\ inputs.calorific_value.n > 0
    /\ inputs.emission_factor.n > 0
    /\ rendered = {"error"}
    /\ coreCalls = 0

\* C7: an exception raised while computing or rendering, after validation
\* has passed, is caught and reported as an error and never leaves main; the
\* script can then be run again, and a run on valid values after a failed
\* run produces its result, chart and download.
C7_FailureHandled ==
    /\ pc # "aborted"
    /\ failed => pc \in {"except", "done"}
    /\ (pc = "done" /\ failed) =>
          /\ "error" \in rendered
          /\ ENABLED Rerun(DefaultWidgets)
    /\ (pc = "done" /\ prevFailed /\ ~failed /\ ValidWidgets(inputs)) =>
          /\ rendered = Outputs
          /\ DOMAIN results = ResultKeys

\* A failed run, then a finished run on valid values with all its outputs.
C7_Witness ==
    /\ pc = "done"
    /\ prevFailed
    /\ ~failed
    /\ ValidWidgets(inputs)
    /\ rendered = Outputs
    /\ results[ENERGY].n > 0

====
